---- MODULE Spec2Model ----
(***************************************************************************)
(* Synthetic-children providers for Rust containers (src/lldb): the slice, *)
(* Vec and hashbrown HashMap/HashSet decoders.  An inspected value is a    *)
(* tree of host values built from the debuggee's type layout (ty) and its  *)
(* memory (mem); a provider instance (self) holds what update() stored.    *)
(***************************************************************************)
EXTENDS Integers, Sequences, FiniteSets, TLC

VARIABLES kind, ty, mem, self, status, ret

vars == <<kind, ty, mem, self, status, ret>>

(* ------------------------------ bounds --------------------------------- *)

\* largest value of a length / len / items header field
MaxLen == 2
\* largest bucket count of a table (bucket counts are powers of two)
MaxCap == 2
\* longest child name handed to get_child_index when names are enumerated
MaxNameLen == 4
\* largest index whose produced name "[k]" is parsed back
MaxRoundTrip == 12

(* ---------------------- strings: "[%s]" % index ------------------------ *)

DigitChars == <<"0", "1", "2", "3", "4", "5", "6", "7", "8", "9">>

DecimalDigits == {DigitChars[i] : i \in 1..10}

\* a character str.isdigit() accepts and int() rejects (SUPERSCRIPT TWO)
SuperscriptTwo == "sup2"

DigitValue(c) == CHOOSE d \in 0..9 : DigitChars[d + 1] = c

RECURSIVE str(_)
\* str(int): decimal digits, a leading "-" for a negative number
str(n) ==
    IF n < 0 THEN <<"-">> \o str(-n)
    ELSE IF n < 10 THEN <<DigitChars[n + 1]>>
    ELSE str(n \div 10) \o <<DigitChars[(n % 10) + 1]>>

\* "[%s]" % index
ChildName(index) == <<"[">> \o str(index) \o <<"]">>

RECURSIVE lstrip(_, _)
\* str.lstrip(ch): drops every leading ch
lstrip(s, ch) ==
    IF s # <<>> /\ Head(s) = ch THEN lstrip(Tail(s), ch) ELSE s

RECURSIVE rstrip(_, _)
\* str.rstrip(ch): drops every trailing ch
rstrip(s, ch) ==
    IF s # <<>> /\ s[Len(s)] = ch THEN rstrip(SubSeq(s, 1, Len(s) - 1), ch) ELSE s

\* str.isdigit(): non-empty and every character is a digit character
isdigit(s) ==
    /\ s # <<>>
    /\ \A i \in 1..Len(s) : s[i] \in DecimalDigits \cup {SuperscriptTwo}

RECURSIVE DecimalValue(_)
DecimalValue(s) ==
    IF s = <<>> THEN 0
    ELSE 10 * DecimalValue(SubSeq(s, 1, Len(s) - 1)) + DigitValue(s[Len(s)])

\* int(s): the decimal value, ValueError on a character that is no decimal digit
int(s) ==
    IF \A i \in 1..Len(s) : s[i] \in DecimalDigits
    THEN [raised |-> FALSE, val |-> DecimalValue(s)]
    ELSE [raised |-> TRUE, val |-> 0]

\* get_child_index (the same body in the three providers)
get_child_index(name) ==
    LET index == rstrip(lstrip(name, "["), "]")
    IN  IF isdigit(index) THEN int(index) ELSE [raised |-> FALSE, val |-> -1]

(* --------------------- host values (SBValue, SBType) ------------------- *)

Invalid == [tag |-> "invalid"]

UInt(v) == [tag |-> "uint", val |-> v]

Pointer(addr, pointee) == [tag |-> "ptr", val |-> addr, pointee |-> pointee]

\* an aggregate: its fields by name, their declaration order, and the
\* template arguments of its type
Struct(order, fields, targs) ==
    [tag |-> "struct", order |-> order, fields |-> fields, targs |-> targs]

GetChildMemberWithName(v, name) ==
    IF v.tag = "struct" /\ name \in DOMAIN v.fields THEN v.fields[name] ELSE Invalid

\* used on aggregates only
GetChildAtIndex(v, i) ==
    IF v.tag = "struct" /\ i < Len(v.order) THEN v.fields[v.order[i + 1]] ELSE Invalid

\* GetValueAsUnsigned(fail_value = 0): scalars and pointers have a value
GetValueAsUnsigned(v) == IF v.tag \in {"uint", "ptr"} THEN v.val ELSE 0

IsValid(v) == v.tag # "invalid"

TypeIsPointerType(v) == v.tag = "ptr"

GetPointeeType(v) == IF v.tag = "ptr" THEN v.pointee ELSE "invalid"

\* SBType.template_args: the list of template arguments, None when empty
NoneType == "None"

template_args(v) ==
    IF v.tag = "struct" /\ v.targs # <<>> THEN v.targs ELSE NoneType

GetTemplateArgumentType(v, i) ==
    IF v.tag = "struct" /\ i < Len(v.targs) THEN v.targs[i + 1] ELSE "invalid"

IsTypedefType(t) == t = "PairAlias"

GetTypedefedType(t) == IF t = "PairAlias" THEN "Pair" ELSE t

\* SBType.GetByteSize: u8, the element type T, the (K, V) pair and its alias
GetByteSize(t) ==
    CASE t = "u8" -> 1
      [] t = "T" -> 4
      [] t \in {"Pair", "PairAlias"} -> 16
      [] OTHER -> 0

\* the type of field 0 of a pair
KeyType(t) == IF t = "Pair" THEN "Key" ELSE "invalid"

\* ptr.Cast(type.GetPointerType())
Cast(v, pointee) == IF v.tag = "ptr" THEN Pointer(v.val, pointee) ELSE v

(* --------------------- the inspected value (valobj) -------------------- *)

Addrs == {4096, 8192}

\* control bytes: two FULL bytes (an h2 hash of 0 and of 0x27), DELETED, EMPTY
CtrlBytes == {0, 39, 128, 255}

PairTypes == {"none", "Pair", "PairAlias"}

\* struct NonNull<T> { pointer: *const T }
NonNull(p) == Struct(<<"pointer">>, [pointer |-> p], <<>>)

\* struct NonZero<T>(T)
NonZero(p) == Struct(<<"__0">>, ("__0" :> p), <<>>)

\* the `pointer` field of Unique<T>: a raw pointer, one wrapper around it, or
\* a wrapper around a non-zero wrapper around it
PointerField(wrap, addr) ==
    CASE wrap = 0 -> Pointer(addr, "T")
      [] wrap = 1 -> NonNull(Pointer(addr, "T"))
      [] OTHER -> NonNull(NonZero(Pointer(addr, "T")))

\* &[T]: { data_ptr: *const T, length: usize }
SliceValue(m) ==
    Struct(<<"data_ptr", "length">>,
           [data_ptr |-> Pointer(m.ptr, "T"), length |-> UInt(m.len)], <<>>)

\* Vec<T> { buf: RawVec<T> { inner: { ptr: Unique<T> { pointer }, .. } }, len }
VecValue(t, m) ==
    LET unique == Struct(<<"pointer">>, [pointer |-> PointerField(t.wrap, m.ptr)], <<>>)
        inner == Struct(<<"ptr">>, [ptr |-> unique], <<>>)
        buf == Struct(<<"inner">>, [inner |-> inner], <<>>)
    IN  Struct(<<"buf", "len">>, [buf |-> buf, len |-> UInt(m.len)], <<"T">>)

\* RawTableInner { bucket_mask, ctrl: NonNull<u8>, items, [data: NonNull<T>] }
RawTableInner(t, m) ==
    LET ctrl == NonNull(Pointer(m.ptr, "u8"))
        items == UInt(m.len)
        mask == UInt(m.mask)
        data == NonNull(Pointer(m.data, "Pair"))
    IN  CASE t.hasMask /\ t.hasData ->
               Struct(<<"bucket_mask", "ctrl", "items", "data">>,
                      [bucket_mask |-> mask, ctrl |-> ctrl, items |-> items, data |-> data],
                      <<>>)
          [] t.hasMask /\ ~t.hasData ->
               Struct(<<"bucket_mask", "ctrl", "items">>,
                      [bucket_mask |-> mask, ctrl |-> ctrl, items |-> items], <<>>)
          [] ~t.hasMask /\ t.hasData ->
               Struct(<<"ctrl", "items", "data">>,
                      [ctrl |-> ctrl, items |-> items, data |-> data], <<>>)
          [] OTHER ->
               Struct(<<"ctrl", "items">>, [ctrl |-> ctrl, items |-> items], <<>>)

\* RawTable<(K, V)> { table: RawTableInner }
RawTable(t, m) ==
    Struct(<<"table">>, [table |-> RawTableInner(t, m)],
           IF m.pairType = "none" THEN <<>> ELSE <<m.pairType>>)

\* std HashMap { base: hashbrown::HashMap { table: RawTable } }
HashMapValue(t, m) ==
    Struct(<<"base">>,
           [base |-> Struct(<<"table">>, [table |-> RawTable(t, m)], <<>>)], <<>>)

\* std HashSet { base: hashbrown::HashSet { map: hashbrown::HashMap { table } } }
HashSetValue(t, m) ==
    LET map == Struct(<<"table">>, [table |-> RawTable(t, m)], <<>>)
    IN  Struct(<<"base">>, [base |-> Struct(<<"map">>, [map |-> map], <<>>)], <<>>)

ValObj(k, t, m) ==
    CASE k = "slice" -> SliceValue(m)
      [] k = "vec" -> VecValue(t, m)
      [] k = "map" -> HashMapValue(t, m)
      [] OTHER -> HashSetValue(t, m)

\* the unsigned byte the target holds at an address (0 when unreadable)
ReadU8(m, address) ==
    LET off == address - m.ptr
    IN  IF off >= 0 /\ off < Len(m.ctrl) THEN m.ctrl[off + 1] ELSE 0

\* SBValue.CreateValueFromAddress(name, address, type)
CreateValueFromAddress(name, address, type) ==
    [name |-> name, address |-> address, type |-> type]

(* ------------------------- Python list indexing ------------------------ *)

\* what a method hands back when it raised instead of returning a value
NoValue == [name |-> <<>>, address |-> -1, type |-> "none"]

\* list[index]: negative indices count from the end, IndexError outside
PyIndexInRange(list, index) == index >= -Len(list) /\ index < Len(list)

PyIndex(list, index) ==
    IF index >= 0 THEN list[index + 1] ELSE list[Len(list) + index + 1]

(* ------------------------ StdSliceSyntheticProvider -------------------- *)

Slice_new ==
    [length |-> 0, data_ptr |-> Invalid, element_type |-> "unset",
     element_type_size |-> 0]

Slice_update(s, valobj) ==
    LET data_ptr == GetChildMemberWithName(valobj, "data_ptr")
        element_type == GetPointeeType(data_ptr)
    IN  [raised |-> FALSE,
         self |-> [s EXCEPT
                     !.length = GetValueAsUnsigned(GetChildMemberWithName(valobj, "length")),
                     !.data_ptr = data_ptr,
                     !.element_type = element_type,
                     !.element_type_size = GetByteSize(element_type)]]

Slice_num_children(s) == s.length

Slice_get_child_at_index(s, index) ==
    LET start == GetValueAsUnsigned(s.data_ptr)
        address == start + index * s.element_type_size
    IN  [self |-> s, raised |-> FALSE,
         value |-> CreateValueFromAddress(ChildName(index), address, s.element_type)]

(* ------------------------- StdVecSyntheticProvider --------------------- *)

unwrap_unique_or_non_null(unique_or_nonnull) ==
    LET ptr == GetChildMemberWithName(unique_or_nonnull, "pointer")
    IN  IF TypeIsPointerType(ptr) THEN ptr ELSE GetChildAtIndex(ptr, 0)

Vec_new ==
    [length |-> 0, buf |-> Invalid, data_ptr |-> Invalid, element_type |-> "unset",
     element_type_size |-> 0]

Vec_update(s, valobj) ==
    LET buf == GetChildMemberWithName(GetChildMemberWithName(valobj, "buf"), "inner")
        element_type == GetTemplateArgumentType(valobj, 0)
    IN  [raised |-> FALSE,
         self |-> [s EXCEPT
                     !.length = GetValueAsUnsigned(GetChildMemberWithName(valobj, "len")),
                     !.buf = buf,
                     !.data_ptr = unwrap_unique_or_non_null(GetChildMemberWithName(buf, "ptr")),
                     !.element_type = element_type,
                     !.element_type_size = GetByteSize(element_type)]]

Vec_num_children(s) == s.length

Vec_get_child_at_index(s, index) ==
    LET start == GetValueAsUnsigned(s.data_ptr)
        address == start + index * s.element_type_size
    IN  [self |-> s, raised |-> FALSE,
         value |-> CreateValueFromAddress(ChildName(index), address, s.element_type)]

(* ------------- StdHashMapSyntheticProvider / StdHashSet... ------------- *)

RECURSIVE BitAnd(_, _)
\* a & b on non-negative integers
BitAnd(a, b) ==
    IF a = 0 \/ b = 0 THEN 0
    ELSE (a % 2) * (b % 2) + 2 * BitAnd(a \div 2, b \div 2)

is_present_low_bits(value) == BitAnd(value, 127) = 0

\* is_present = value & 128 == 0
is_present(value) == BitAnd(value, 128) = 0

\* table(): base.table for a map, base.map.table for a set
table(valobj, show_values) ==
    LET base == GetChildMemberWithName(valobj, "base")
    IN  IF show_values
        THEN GetChildMemberWithName(base, "table")
        ELSE GetChildMemberWithName(GetChildMemberWithName(base, "map"), "table")

HashMap_new ==
    [size |-> 0, pair_type |-> "unset", pair_type_size |-> 0, new_layout |-> FALSE,
     data_ptr |-> Invalid, valid_indices |-> <<>>]

valid_indices_kept(s) == s.valid_indices

\* self.valid_indices = []
valid_indices_reset(s) == <<>>

RECURSIVE scan_ctrl(_, _, _, _, _)
\* for idx in range(capacity): read ctrl[idx], append idx when it is present
scan_ctrl(acc, idx, capacity, ctrl, m) ==
    IF idx >= capacity THEN acc
    ELSE LET u8_type_size == GetByteSize("u8")
             address == GetValueAsUnsigned(ctrl) + idx * u8_type_size
             value == IF IsValid(ctrl) THEN ReadU8(m, address) ELSE 0
         IN  scan_ctrl(IF is_present(value) THEN Append(acc, idx) ELSE acc,
                       idx + 1, capacity, ctrl, m)

HashMap_update(s, valobj, m, show_values) ==
    LET tbl == table(valobj, show_values)
        inner_table == GetChildMemberWithName(tbl, "table")
        capacity ==
            GetValueAsUnsigned(GetChildMemberWithName(inner_table, "bucket_mask")) + 1
        ctrl == GetChildAtIndex(GetChildMemberWithName(inner_table, "ctrl"), 0)
        s1 == [s EXCEPT
                 !.size = GetValueAsUnsigned(GetChildMemberWithName(inner_table, "items"))]
    IN  IF template_args(tbl) = NoneType
        THEN \* template_args[0] raises TypeError, self.size is already stored
             [raised |-> TRUE, self |-> s1]
        ELSE LET arg0 == template_args(tbl)[1]
                 pair_type == IF IsTypedefType(arg0) THEN GetTypedefedType(arg0) ELSE arg0
                 data == GetChildMemberWithName(inner_table, "data")
                 new_layout == ~IsValid(data)
                 data_ptr == IF new_layout THEN Cast(ctrl, pair_type)
                             ELSE GetChildAtIndex(data, 0)
             IN  [raised |-> FALSE,
                  self |-> [s1 EXCEPT
                              !.pair_type = pair_type,
                              !.pair_type_size = GetByteSize(pair_type),
                              !.new_layout = new_layout,
                              !.data_ptr = data_ptr,
                              !.valid_indices =
                                  scan_ctrl(valid_indices_reset(s1), 0, capacity, ctrl, m)]]

HashMap_num_children(s) == s.size

\* the value get_child_at_index builds; IndexError when valid_indices[index] is
\* out of range
HashMap_child(s, index, show_values) ==
    IF ~PyIndexInRange(s.valid_indices, index)
    THEN [raised |-> TRUE, value |-> NoValue]
    ELSE LET pairs_start == GetValueAsUnsigned(s.data_ptr)
             slot == PyIndex(s.valid_indices, index)
             idx == IF s.new_layout THEN -(slot + 1) ELSE slot
             address == pairs_start + idx * s.pair_type_size
             element == CreateValueFromAddress(ChildName(index), address, s.pair_type)
         IN  [raised |-> FALSE,
              value |-> IF show_values THEN element
                        ELSE [element EXCEPT !.type = KeyType(s.pair_type)]]

HashMap_get_child_at_index_pop(s, index, show_values) ==
    LET out == HashMap_child(s, index, show_values)
        at == IF index >= 0 THEN index + 1 ELSE Len(s.valid_indices) + index + 1
        rest == IF out.raised THEN s.valid_indices
                ELSE SubSeq(s.valid_indices, 1, at - 1)
                     \o SubSeq(s.valid_indices, at + 1, Len(s.valid_indices))
    IN  [self |-> [s EXCEPT !.valid_indices = rest],
         raised |-> out.raised, value |-> out.value]

HashMap_get_child_at_index(s, index, show_values) ==
    LET out == HashMap_child(s, index, show_values)
    IN  [self |-> s, raised |-> out.raised, value |-> out.value]

(* ------------------------------ dispatch ------------------------------- *)

Kinds == {"slice", "vec", "map", "set"}

Tables == {"map", "set"}

New(k) ==
    CASE k = "slice" -> Slice_new
      [] k = "vec" -> Vec_new
      [] OTHER -> HashMap_new

\* update() of the provider of kind k on the instance s
update(k, s, t, m) ==
    CASE k = "slice" -> Slice_update(s, ValObj(k, t, m))
      [] k = "vec" -> Vec_update(s, ValObj(k, t, m))
      [] OTHER -> HashMap_update(s, ValObj(k, t, m), m, k = "map")

num_children(k, s) ==
    CASE k = "slice" -> Slice_num_children(s)
      [] k = "vec" -> Vec_num_children(s)
      [] OTHER -> HashMap_num_children(s)

get_child_at_index(k, s, index) ==
    CASE k = "slice" -> Slice_get_child_at_index(s, index)
      [] k = "vec" -> Vec_get_child_at_index(s, index)
      [] OTHER -> HashMap_get_child_at_index(s, index, k = "map")

(* ------------------------------ the debuggee --------------------------- *)

IsPowerOfTwo(c) == \E e \in 0..c : 2 ^ e = c

Masks == {c - 1 : c \in {x \in 1..MaxCap : IsPowerOfTwo(x)}}

Lens == 0..MaxLen

\* indices the host asks for: in range, one below and one past every count
Indices == -1..(MaxLen + 1)

\* names the host probes between two updates
ProbeNames == {ChildName(0), <<"a">>}

TypeLayouts(k) ==
    CASE k = "slice" -> {[wrap |-> 0, hasMask |-> TRUE, hasData |-> FALSE]}
      [] k = "vec" -> {[wrap |-> w, hasMask |-> TRUE, hasData |-> FALSE] : w \in 0..2}
      [] k = "map" -> {[wrap |-> 0, hasMask |-> hm, hasData |-> hd] :
                         hm \in BOOLEAN, hd \in BOOLEAN}
      [] OTHER -> {[wrap |-> 0, hasMask |-> TRUE, hasData |-> hd] : hd \in BOOLEAN}

\* an empty container
EmptySnapshot(k) ==
    IF k \in Tables
    THEN [len |-> 0, ptr |-> 8192, data |-> 4096, mask |-> 0, ctrl |-> <<255>>,
          pairType |-> "Pair"]
    ELSE [len |-> 0, ptr |-> 4096, data |-> 0, mask |-> 0, ctrl |-> <<>>,
          pairType |-> "none"]

Stop == [op |-> "stop"]

Init ==
    /\ kind \in Kinds
    /\ ty \in TypeLayouts(kind)
    /\ mem = EmptySnapshot(kind)
    /\ self = New(kind)
    /\ status = "Uninitialized"
    /\ ret = Stop

\* the debuggee ran and stopped with another header count
WriteLen ==
    \E n \in Lens \ {mem.len} :
        /\ mem' = [mem EXCEPT !.len = n]
        /\ ret' = Stop
        /\ UNCHANGED <<kind, ty, self, status>>

\* the buffer or the control bytes moved (reallocation)
MovePtr ==
    \E a \in Addrs \ {mem.ptr} :
        /\ mem' = [mem EXCEPT !.ptr = a]
        /\ ret' = Stop
        /\ UNCHANGED <<kind, ty, self, status>>

\* a control byte changed (insert, remove)
WriteCtrl ==
    /\ kind \in Tables
    /\ \E i \in 1..Len(mem.ctrl) :
           \E b \in CtrlBytes \ {mem.ctrl[i]} : mem' = [mem EXCEPT !.ctrl[i] = b]
    /\ ret' = Stop
    /\ UNCHANGED <<kind, ty, self, status>>

\* the table was resized: new buckets are EMPTY
Resize ==
    /\ kind \in Tables
    /\ ty.hasMask
    /\ \E mk \in Masks \ {mem.mask} :
           mem' = [mem EXCEPT
                     !.mask = mk,
                     !.ctrl = [i \in 1..(mk + 1) |->
                                 IF i <= Len(mem.ctrl) THEN mem.ctrl[i] ELSE 255]]
    /\ ret' = Stop
    /\ UNCHANGED <<kind, ty, self, status>>

\* the host resolves the pair type differently at this stop (or not at all)
Retype ==
    /\ kind \in Tables
    /\ \E pt \in PairTypes \ {mem.pairType} : mem' = [mem EXCEPT !.pairType = pt]
    /\ ret' = Stop
    /\ UNCHANGED <<kind, ty, self, status>>

(* ------------------------------ the host ------------------------------- *)

\* __init__: a new instance runs update(); when that raises, no instance exists
Construct ==
    /\ status = "Uninitialized"
    /\ ret = Stop
    /\ LET out == update(kind, New(kind), ty, mem)
       IN  /\ self' = IF out.raised THEN New(kind) ELSE out.self
           /\ status' = IF out.raised THEN "Uninitialized" ELSE "Ready"
           /\ ret' = [op |-> "__init__", raised |-> out.raised, changed |-> ~out.raised]
    /\ UNCHANGED <<kind, ty, mem>>

\* update() on a live instance; an exception leaves what was already assigned
Update ==
    /\ status # "Uninitialized"
    /\ LET out == update(kind, self, ty, mem)
       IN  /\ self' = out.self
           /\ status' = IF out.raised THEN "Failed" ELSE "Ready"
           /\ ret' = [op |-> "update", raised |-> out.raised, changed |-> out.self # self]
    /\ UNCHANGED <<kind, ty, mem>>

\* the host queries a live instance after the update that follows a stop
Live == status # "Uninitialized" /\ ret # Stop

NumChildren ==
    /\ Live
    /\ ret' = [op |-> "num_children", val |-> num_children(kind, self)]
    /\ UNCHANGED <<kind, ty, mem, self, status>>

GetChildIndexOf(names) ==
    /\ Live
    /\ \E name \in names :
           LET out == get_child_index(name)
           IN  ret' = [op |-> "get_child_index", name |-> name,
                       raised |-> out.raised, val |-> out.val]
    /\ UNCHANGED <<kind, ty, mem, self, status>>

GetChildIndex == GetChildIndexOf(ProbeNames)

ChildAt ==
    /\ Live
    /\ \E index \in Indices :
           LET out == get_child_at_index(kind, self, index)
           IN  /\ self' = out.self
               /\ ret' = [op |-> "get_child_at_index", index |-> index,
                          raised |-> out.raised, value |-> out.value]
    /\ UNCHANGED <<kind, ty, mem, status>>

Next ==
    \/ WriteLen
    \/ MovePtr
    \/ WriteCtrl
    \/ Resize
    \/ Retype
    \/ Construct
    \/ Update
    \/ NumChildren
    \/ GetChildIndex
    \/ ChildAt

Spec == Init /\ [][Next]_vars

(* ----------------- get_child_index over enumerated names --------------- *)

\* the characters names are made of: brackets, a decimal digit, a letter and
\* a digit character that is no decimal digit
NameChars == {"[", "]", "3", "a", SuperscriptTwo}

AllNames == UNION {[1..n -> NameChars] : n \in 0..MaxNameLen}

InitNames == Init /\ kind = "slice"

GetChildIndexAny == GetChildIndexOf(AllNames)

\* the name get_child_at_index gives child k, handed back to get_child_index
RoundTrip ==
    /\ Live
    /\ \E k \in 0..MaxRoundTrip :
           LET made == get_child_at_index(kind, self, k)
               out == get_child_index(made.value.name)
           IN  ret' = [op |-> "round_trip", index |-> k, name |-> made.value.name,
                       raised |-> out.raised, val |-> out.val]
    /\ UNCHANGED <<kind, ty, mem, self, status>>

NextNames ==
    \/ Construct
    \/ GetChildIndexAny
    \/ RoundTrip

SpecName == InitNames /\ [][NextNames]_vars

(* ------------------------------- claims -------------------------------- *)

Updated == ret.op \in {"__init__", "update"}

Returned == Updated /\ ~ret.raised

\* bucket_mask as update() reads it: an absent field reads as 0
MaskRead == IF ty.hasMask THEN mem.mask ELSE 0

\* the physical slots whose control byte has its high bit clear
OccupiedSlots == {i \in 0..MaskRead : mem.ctrl[i + 1] < 128}

\* C1: after every update() that leaves the hash-table decoder Ready, the
\* number of scanned valid slots equals the count num_children() reports
\* (the header `items` field); a mismatch never leaves the decoder Ready.
\* Stated for tables that have their bucket_mask field.
C1_CountMatchesScan ==
    (kind \in Tables /\ ty.hasMask /\ status = "Ready")
        => Len(self.valid_indices) = num_children(kind, self)

\* C2: after an update() that returned, valid_indices lists exactly the
\* slots 0..capacity-1 whose control byte has the high bit clear, in
\* strictly increasing order, and no index >= capacity.
C2_ValidSlotsExact ==
    (kind \in Tables /\ Returned) =>
        LET v == self.valid_indices
        IN  /\ \A i \in 1..(Len(v) - 1) : v[i] < v[i + 1]
            /\ \A i \in 1..Len(v) : v[i] >= 0 /\ v[i] < MaskRead + 1
            /\ {v[i] : i \in 1..Len(v)} = OccupiedSlots

\* a two-bucket table whose slot 0 is a tombstone and whose slot 1 is full
C2_Witness ==
    /\ kind \in Tables
    /\ Returned
    /\ ty.hasMask
    /\ mem.ctrl = <<128, 39>>
    /\ self.valid_indices = <<1>>

\* C3: for every k with 0 <= k < num_children() of a Ready hash-table
\* decoder, get_child_at_index(k) builds its value at
\* element_base + valid_indices[k] * pair_size when the inner table has a
\* data field, and at ctrl - (valid_indices[k] + 1) * pair_size otherwise.
\* Stated for tables that have their bucket_mask field.
C3_ChildAddress ==
    (/\ kind \in Tables
     /\ ty.hasMask
     /\ status = "Ready"
     /\ ret.op = "get_child_at_index"
     /\ ret.index >= 0
     /\ ret.index < num_children(kind, self))
        => /\ ~ret.raised
           /\ ret.value.address =
                  IF ty.hasData
                  THEN mem.data + self.valid_indices[ret.index + 1] * GetByteSize("Pair")
                  ELSE mem.ptr
                       - (self.valid_indices[ret.index + 1] + 1) * GetByteSize("Pair")

\* C4: get_child_at_index with an index outside [0, num_children()) yields
\* a range error and builds no value, for the slice, Vec and hash-table
\* decoders.
C4_OutOfRangeRaises ==
    (/\ ret.op = "get_child_at_index"
     /\ (ret.index < 0 \/ ret.index >= num_children(kind, self)))
        => ret.raised /\ ret.value = NoValue

\* exactly one "[", one or more decimal digits, one "]"
IsBracketedDecimal(name) ==
    /\ Len(name) >= 3
    /\ name[1] = "["
    /\ name[Len(name)] = "]"
    /\ \A i \in 2..(Len(name) - 1) : name[i] \in DecimalDigits

\* C5: get_child_index gives k back for every produced name "[k]", and
\* returns -1 without raising for every name that is not a bracketed decimal.
C5_StrictRoundTrip ==
    /\ ret.op = "round_trip" => ~ret.raised /\ ret.val = ret.index
    /\ (ret.op = "get_child_index" /\ ~IsBracketedDecimal(ret.name))
           => ~ret.raised /\ ret.val = -1

\* C6: when the table has no bucket_mask field, update() fails: the decoder
\* does not become Ready with capacity 1.
C6_MissingMaskFails ==
    (kind \in Tables /\ ~ty.hasMask /\ Updated)
        => ret.raised /\ status # "Ready"

\* C7: whether ptr.pointer is a raw pointer, one wrapper or a two-level
\* wrapper around it, the Vec decoder resolves data_start to the allocation's
\* address and child i is at that address + i * element_size.
C7_UnwrapSameAddress ==
    (/\ kind = "vec"
     /\ status = "Ready"
     /\ ret.op = "get_child_at_index"
     /\ ret.index >= 0
     /\ ret.index < num_children(kind, self))
        => /\ GetValueAsUnsigned(self.data_ptr) = mem.ptr
           /\ ~ret.raised
           /\ ret.value.address = mem.ptr + ret.index * GetByteSize("T")

\* C8: the geometry after each update() that returned is the geometry a new
\* instance computes from the same snapshot: nothing of an earlier update
\* survives, whatever the instance's history.
C8_GeometryFromSnapshot ==
    (ret.op = "update" /\ ~ret.raised)
        => self = update(kind, New(kind), ty, mem).self

\* an instance with a history: the update replaced a geometry that had slots
C8_Witness ==
    /\ kind \in Tables
    /\ ret.op = "update"
    /\ ~ret.raised
    /\ ret.changed
    /\ self.valid_indices = <<1>>
    /\ self.size = 2

Queries == {"num_children", "get_child_index", "get_child_at_index"}

\* C9: num_children, get_child_at_index and get_child_index leave the
\* instance and the snapshot unchanged, and get_child_at_index called again
\* with the same index returns the same address, type and name.
C9_QueriesKeepGeometry ==
    [][/\ ret'.op \in Queries => self' = self /\ mem' = mem /\ status' = status
       /\ (/\ ret.op = "get_child_at_index"
           /\ ret'.op = "get_child_at_index"
           /\ ret'.index = ret.index) => ret'.value = ret.value /\ ret'.raised = ret.raised
      ]_vars

\* the second child of a hash table was built
C9_Witness ==
    /\ kind \in Tables
    /\ ret.op = "get_child_at_index"
    /\ ret.index = 1
    /\ ~ret.raised
    /\ ret.value.name = <<"[", "1", "]">>

\* C10: an update() that fails on a live hash-table decoder exposes no
\* partially updated table: the instance is left as it was, or reports no
\* children.  Stated for tables that have their bucket_mask field.
C10_NoPartialUpdate ==
    (kind \in Tables /\ ty.hasMask /\ ret.op = "update" /\ ret.raised)
        => ~ret.changed \/ num_children(kind, self) = 0

====
